---- MODULE Spec2Model ----
(***************************************************************************)
(* A model of src/pipeline.py: the named-query parser, the query runner,   *)
(* the warehouse build and the command surface.                             *)
(*                                                                         *)
(* Text is a sequence of tokens.  A token is one character, except Marker, *)
(* which stands for the eight characters "-- name:" (the only token that   *)
(* holds a colon).  An Optional value is <<>> (None) or <<v>>.  A SQL NULL *)
(* is the same <<>>, a present value <<v>>.                                *)
(***************************************************************************)
EXTENDS Integers, Sequences, FiniteSets

VARIABLES
    pc,            \* position of the running command
    command,       \* args.command
    selected,      \* args.name: Optional text
    explain,       \* args.explain
    exc,           \* the exception the command ended with, "none" if none
    message,       \* the names listed by the SystemExit message
    file,          \* the lines of QUERIES_FILE
    pos,           \* the next line `for line in f` yields
    queries,       \* parse_named_queries' dict, in insertion order
    current_name,  \* Optional text
    buffer,        \* list of lines
    conns,         \* the open engine connections (their modes)
    out,           \* what the runner printed and executed, in order
    it,            \* run_queries' place in queries.items()
    csv,           \* the rows of data/raw/orders.csv
    wh,            \* the warehouse file: schemas and tables
    runs,          \* commands started so far on this warehouse
    h_dir,         \* history: position in file of the active directive
    h_buf,         \* history: positions in file of the lines in buffer
    h_stored,      \* history: every store into queries
    h_opened,      \* history: connections opened by the running command
    h_fresh        \* history: the warehouse a first, completed build left

vars == <<pc, command, selected, explain, exc, message, file, pos, queries,
          current_name, buffer, conns, out, it, csv, wh, runs,
          h_dir, h_buf, h_stored, h_opened, h_fresh>>

parseVars == <<file, pos, queries, current_name, buffer, h_dir, h_buf, h_stored>>
argVars   == <<command, selected, explain>>
etlVars   == <<csv, wh, h_fresh>>

\* ------------------------------------------------------------------ bounds

MaxLines == 4
MaxFileLines == 5
MaxOrders == 3
MaxRuns == 3

\* -------------------------------------------------------------------- text

None == <<>>
Some(v) == <<v>>

Marker == "-- name:"
Whitespace == {" ", "\n"}

RECURSIVE LStrip(_)
LStrip(s) ==
    IF s # <<>> /\ Head(s) \in Whitespace THEN LStrip(Tail(s)) ELSE s

RECURSIVE RStrip(_)
RStrip(s) ==
    IF s # <<>> /\ s[Len(s)] \in Whitespace
    THEN RStrip(SubSeq(s, 1, Len(s) - 1)) ELSE s

\* str.strip()
Strip(s) == RStrip(LStrip(s))

\* str.startswith("-- name:")
StartsWithMarker(s) == s # <<>> /\ Head(s) = Marker

\* line.split(":", 1)[1]: the text after the first colon.
RECURSIVE AfterFirstColon(_)
AfterFirstColon(s) ==
    IF s = <<>> THEN <<>>
    ELSE IF Head(s) = Marker THEN Tail(s) ELSE AfterFirstColon(Tail(s))

\* "".join(buffer)
RECURSIVE Join(_)
Join(lines) == IF lines = <<>> THEN <<>> ELSE Head(lines) \o Join(Tail(lines))

\* Python's truth value of an Optional[str]: None and "" are false.
Truthy(o) == o # None /\ o[1] # <<>>

\* Code points, for the order sorted() puts strings in.
Ord(c) ==
    CASE c = "\n" -> 10 [] c = " " -> 32 [] c = Marker -> 45
      [] c = "a" -> 97 [] c = "b" -> 98 [] c = "c" -> 99
      [] c = "x" -> 120 [] c = "y" -> 121

RECURSIVE StrLess(_, _)
StrLess(s, t) ==
    IF t = <<>> THEN FALSE
    ELSE IF s = <<>> THEN TRUE
    ELSE IF Head(s) = Head(t) THEN StrLess(Tail(s), Tail(t))
    ELSE Ord(Head(s)) < Ord(Head(t))

\* -------------------------------------------------------------------- dict

\* A dict is the sequence of its items [key, value] in insertion order.
DictHas(d, k) == \E i \in 1..Len(d) : d[i].key = k

DictGet(d, k) == d[CHOOSE i \in 1..Len(d) : d[i].key = k].value

Keys(d) == [i \in 1..Len(d) |-> d[i].key]

\* A faulty variant: a store that keeps the value a key already has.
DictSetKeepFirst(d, k, v) ==
    IF DictHas(d, k) THEN d ELSE Append(d, [key |-> k, value |-> v])

\* d[k] = v: a present key keeps its place and takes the new value.
DictSet(d, k, v) ==
    IF DictHas(d, k)
    THEN [i \in 1..Len(d) |-> IF d[i].key = k THEN [key |-> k, value |-> v] ELSE d[i]]
    ELSE Append(d, [key |-> k, value |-> v])

RECURSIVE Insert(_, _)
Insert(sorted, k) ==
    IF sorted = <<>> THEN <<k>>
    ELSE IF StrLess(k, Head(sorted)) THEN <<k>> \o sorted
    ELSE <<Head(sorted)>> \o Insert(Tail(sorted), k)

RECURSIVE SortNames(_)
SortNames(s) == IF s = <<>> THEN <<>> ELSE Insert(SortNames(Tail(s)), Head(s))

\* sorted(queries): the keys in ascending order.
Sorted(d) == SortNames(Keys(d))

\* ------------------------------------------------------------------ parser

\* line.strip().startswith("-- name:")
IsDirective(line) == StartsWithMarker(Strip(line))

\* line.split(":", 1)[1].strip()
NameOf(line) == Strip(AfterFirstColon(line))

\* A faulty variant: the body is stored untrimmed.
QueryBodyUntrimmed(buf) == Join(buf)

\* "".join(buffer).strip()
QueryBody(buf) == Strip(Join(buf))

\* `if current_name and buffer`
ShouldFlush(name, buf) == Truthy(name) /\ buf # <<>>

\* The lines a file is drawn from.
DirectiveA == <<Marker, " ", "a", "\n">>
DirectiveB == <<" ", Marker, "b", " ", "\n">>
DirectiveNoName == <<Marker, " ", "\n">>
BodyX == <<"x", "\n">>
BodyY == <<" ", "y", " ", "\n">>
BlankLine == <<"\n">>
MarkerInside == <<"x", " ", Marker, "a", "\n">>

ParseLines ==
    {DirectiveA, DirectiveB, DirectiveNoName, BodyX, BodyY, BlankLine, MarkerInside}

FilesOver(lines, n) == UNION {[1..k -> lines] : k \in 0..n}

ParserStart ==
    /\ pos = 1
    /\ queries = <<>>
    /\ current_name = None
    /\ buffer = <<>>
    /\ h_dir = 0
    /\ h_buf = <<>>
    /\ h_stored = <<>>

\* One turn of `for line in f` on a directive line.
ReadDirective ==
    /\ pc = "parse"
    /\ pos <= Len(file)
    /\ IsDirective(file[pos])
    /\ IF ShouldFlush(current_name, buffer)
       THEN /\ queries' = DictSet(queries, current_name[1], QueryBody(buffer))
            /\ buffer' = <<>>
            /\ h_buf' = <<>>
            /\ h_stored' = Append(h_stored,
                   [dir |-> h_dir, name |-> current_name[1], lines |-> h_buf])
       ELSE UNCHANGED <<queries, buffer, h_buf, h_stored>>
    /\ current_name' = Some(NameOf(file[pos]))
    /\ h_dir' = pos
    /\ pos' = pos + 1
    /\ UNCHANGED <<pc, file, argVars, exc, message, conns, out, it, etlVars, runs, h_opened>>

\* One turn of `for line in f` on any other line.
ReadLine ==
    /\ pc = "parse"
    /\ pos <= Len(file)
    /\ ~IsDirective(file[pos])
    /\ buffer' = Append(buffer, file[pos])
    /\ h_buf' = Append(h_buf, pos)
    /\ pos' = pos + 1
    /\ UNCHANGED <<pc, file, queries, current_name, h_dir, h_stored,
                   argVars, exc, message, conns, out, it, etlVars, runs, h_opened>>

\* The end of the file: the last flush, and the return.
EndOfInput ==
    /\ pc = "parse"
    /\ pos > Len(file)
    /\ IF ShouldFlush(current_name, buffer)
       THEN /\ queries' = DictSet(queries, current_name[1], QueryBody(buffer))
            /\ h_stored' = Append(h_stored,
                   [dir |-> h_dir, name |-> current_name[1], lines |-> h_buf])
       ELSE UNCHANGED <<queries, h_stored>>
    /\ pc' = "parsed"
    /\ UNCHANGED <<file, pos, current_name, buffer, h_dir, h_buf,
                   argVars, exc, message, conns, out, it, etlVars, runs, h_opened>>

\* --------------------------------------------------------------- warehouse

Null == <<>>

EmptyWarehouse ==
    [schemas |-> {}, customers |-> None, products |-> None, orders |-> None,
     dim_customers |-> None, dim_products |-> None, fact_orders |-> None,
     metrics_daily |-> None, customer_rollups |-> None]

\* The rows of customers.csv and products.csv (one customer is listed twice).
CustomersCsv ==
    << [customer_id |-> 1, name |-> "Ann", country |-> "US", signup_date |-> 1],
       [customer_id |-> 2, name |-> "Bob", country |-> "DE", signup_date |-> 1],
       [customer_id |-> 1, name |-> "Ann", country |-> "US", signup_date |-> 1],
       [customer_id |-> 3, name |-> "Cid", country |-> "FR", signup_date |-> 2] >>

ProductsCsv ==
    << [product_id |-> 1, name |-> "pen", category |-> "office", unit_price |-> 5],
       [product_id |-> 2, name |-> "ink", category |-> "office", unit_price |-> 10] >>

\* The rows orders.csv is drawn from.  A timestamp is <<date, hour>>; an empty
\* status field is read as NULL.
Order(id, cust, prod, date, hour, status, qty, price) ==
    [order_id |-> id, customer_id |-> cust, product_id |-> prod,
     order_timestamp |-> <<date, hour>>, status |-> status,
     quantity |-> qty, unit_price |-> price]

OrderRows ==
    { Order(1, 1, 1, 1, 9, Some("completed"), 2, 5),
      Order(2, 2, 1, 1, 17, Some("Cancelled"), 1, 5),
      Order(3, 2, 2, 2, 9, Some("shipped"), 1, 10),
      Order(4, 1, 2, 2, 17, Some("REFUNDED"), 1, 10),
      Order(5, 3, 1, 1, 12, Null, 3, 5),
      Order(6, 3, 1, 2, 12, Some("completed"), 3, 5) }

OrderFiles == UNION {[1..k -> OrderRows] : k \in 0..MaxOrders}

\* LOWER(status)
Lower(s) ==
    IF s = Null THEN Null
    ELSE Some(CASE s[1] = "Cancelled" -> "cancelled"
                [] s[1] = "REFUNDED" -> "refunded"
                [] OTHER -> s[1])

\* CAST(order_ts AS DATE)
DateOf(ts) == ts[1]

\* x NOT IN (list), in SQL's three-valued logic: NULL when x is NULL.
NotIn(x, list) == IF x = Null THEN Null ELSE Some(x[1] \notin list)

\* WHERE LOWER(status) NOT IN ('cancelled', 'refunded'): a row is kept when
\* the condition is true.
KeepOrder(o) == NotIn(Lower(o.status), {"cancelled", "refunded"}) = Some(TRUE)

\* The select list of mart.fact_orders.
FactRow(o) ==
    [order_id |-> o.order_id, customer_id |-> o.customer_id,
     product_id |-> o.product_id, order_ts |-> o.order_timestamp,
     status |-> Lower(o.status), quantity |-> o.quantity,
     unit_price |-> o.unit_price, gross_revenue |-> o.quantity * o.unit_price]

FactOrders(orders) ==
    LET kept == SelectSeq(orders, KeepOrder)
    IN  [i \in 1..Len(kept) |-> FactRow(kept[i])]

RECURSIVE SumRevenue(_)
SumRevenue(rows) ==
    IF rows = <<>> THEN 0 ELSE Head(rows).gross_revenue + SumRevenue(Tail(rows))

RECURSIVE SumQuantity(_)
SumQuantity(rows) ==
    IF rows = <<>> THEN 0 ELSE Head(rows).quantity + SumQuantity(Tail(rows))

\* SELECT ... FROM mart.fact_orders GROUP BY CAST(order_ts AS DATE)
MetricsDaily(fact) ==
    { LET g == SelectSeq(fact, LAMBDA r : DateOf(r.order_ts) = d)
      IN  [order_date |-> d, revenue |-> SumRevenue(g),
           units |-> SumQuantity(g), orders |-> Len(g)]
      : d \in {DateOf(fact[i].order_ts) : i \in 1..Len(fact)} }

\* SELECT ... FROM mart.fact_orders GROUP BY customer_id, before the window.
CustomerGroups(fact) ==
    { LET g == SelectSeq(fact, LAMBDA r : r.customer_id = c)
      IN  [customer_id |-> c, order_count |-> Len(g),
           total_revenue |-> SumRevenue(g), units |-> SumQuantity(g)]
      : c \in {fact[i].customer_id : i \in 1..Len(fact)} }

\* ROW_NUMBER() OVER (ORDER BY SUM(gross_revenue) DESC): every numbering
\* 1..n of the groups that puts a larger revenue first; rows of equal
\* revenue come in an order the engine chooses.
RowNumberings(groups) ==
    { r \in [groups -> 1..Cardinality(groups)] :
        /\ \A g1, g2 \in groups : g1 # g2 => r[g1] # r[g2]
        /\ \A g1, g2 \in groups :
               g1.total_revenue > g2.total_revenue => r[g1] < r[g2] }

RollupRows(groups, r) ==
    { [customer_id |-> g.customer_id, order_count |-> g.order_count,
       total_revenue |-> g.total_revenue, units |-> g.units,
       revenue_rank |-> r[g]] : g \in groups }

\* SELECT DISTINCT ... FROM staging.customers
DimCustomers(rows) ==
    { [customer_id |-> rows[i].customer_id, name |-> rows[i].name,
       country |-> rows[i].country, signup_date |-> rows[i].signup_date]
      : i \in 1..Len(rows) }

\* SELECT DISTINCT ... FROM staging.products
DimProducts(rows) ==
    { [product_id |-> rows[i].product_id, name |-> rows[i].name,
       category |-> rows[i].category, base_price |-> rows[i].unit_price]
      : i \in 1..Len(rows) }

\* ------------------------------------------------------------- connections

\* A faulty variant: leaving the block keeps the connection open.
ExitWithLeak(c) == c

\* Leaving a `with get_connection(...) as conn` block closes the connection.
ExitWith(c) == SubSeq(c, 1, Len(c) - 1)

\* get_connection(): duckdb.connect succeeds.
Connect ==
    /\ pc \in {"etl_open", "rq_open"}
    /\ conns' = Append(conns, IF pc = "etl_open" THEN "rw" ELSE "ro")
    /\ h_opened' = h_opened + 1
    /\ pc' = IF pc = "etl_open" THEN "ingest_schema" ELSE "rq_loop"
    /\ UNCHANGED <<argVars, exc, message, parseVars, out, it, etlVars, runs>>

\* get_connection(): duckdb.connect raises; no connection was made.
ConnectFails ==
    /\ pc \in {"etl_open", "rq_open"}
    /\ exc' = "Error"
    /\ pc' = "done"
    /\ UNCHANGED <<argVars, message, parseVars, conns, out, it, etlVars, runs, h_opened>>

StatementPcs ==
    {"ingest_schema", "ingest_customers", "ingest_products", "ingest_orders",
     "mart_schema", "dim_customers", "dim_products", "fact_orders",
     "metrics_daily", "customer_rollups", "analyze", "rq_execute"}

\* conn.execute raises: the error leaves the `with` block, which closes the
\* connection, and ends the command.
StatementFails ==
    /\ pc \in StatementPcs
    /\ exc' = "Error"
    /\ conns' = ExitWith(conns)
    /\ pc' = "done"
    /\ UNCHANGED <<argVars, message, parseVars, out, it, etlVars, runs, h_opened>>

\* ------------------------------------------------------------------ run_etl

\* A statement that succeeds: the table is replaced, and committed at once.
EtlStep(to, newWh) ==
    /\ pc' = to
    /\ wh' = newWh
    /\ UNCHANGED <<argVars, exc, message, parseVars, conns, out, it, csv, runs,
                   h_opened, h_fresh>>

CreateStagingSchema ==
    /\ pc = "ingest_schema"
    /\ EtlStep("ingest_customers",
            [wh EXCEPT !.schemas = @ \cup {"staging"}])

IngestCustomers ==
    /\ pc = "ingest_customers"
    /\ EtlStep("ingest_products",
            [wh EXCEPT !.customers = Some(CustomersCsv)])

IngestProducts ==
    /\ pc = "ingest_products"
    /\ EtlStep("ingest_orders",
            [wh EXCEPT !.products = Some(ProductsCsv)])

IngestOrders ==
    /\ pc = "ingest_orders"
    /\ EtlStep("mart_schema", [wh EXCEPT !.orders = Some(csv)])

CreateMartSchema ==
    /\ pc = "mart_schema"
    /\ EtlStep("dim_customers",
            [wh EXCEPT !.schemas = @ \cup {"mart"}])

BuildDimCustomers ==
    /\ pc = "dim_customers"
    /\ EtlStep("dim_products",
            [wh EXCEPT !.dim_customers = Some(DimCustomers(wh.customers[1]))])

BuildDimProducts ==
    /\ pc = "dim_products"
    /\ EtlStep("fact_orders",
            [wh EXCEPT !.dim_products = Some(DimProducts(wh.products[1]))])

BuildFactOrders ==
    /\ pc = "fact_orders"
    /\ EtlStep("metrics_daily",
            [wh EXCEPT !.fact_orders = Some(FactOrders(wh.orders[1]))])

BuildMetricsDaily ==
    /\ pc = "metrics_daily"
    /\ EtlStep("customer_rollups",
            [wh EXCEPT !.metrics_daily = Some(MetricsDaily(wh.fact_orders[1]))])

BuildCustomerRollups ==
    /\ pc = "customer_rollups"
    /\ \E r \in RowNumberings(CustomerGroups(wh.fact_orders[1])) :
           EtlStep("analyze",
                   [wh EXCEPT !.customer_rollups =
                        Some(RollupRows(CustomerGroups(wh.fact_orders[1]), r))])

Analyze ==
    /\ pc = "analyze"
    /\ EtlStep("etl_exit", wh)

\* The end of run_etl's `with` block; main goes on to run_queries under `full`.
EtlExit ==
    /\ pc = "etl_exit"
    /\ conns' = ExitWith(conns)
    /\ pc' = IF command = "full" THEN "rq_begin" ELSE "done"
    /\ h_fresh' = IF runs = 1 THEN Some(wh) ELSE h_fresh
    /\ UNCHANGED <<argVars, exc, message, parseVars, out, it, csv, wh, runs, h_opened>>

\* -------------------------------------------------------------- run_queries

\* The lines QUERIES_FILE is drawn from when a command runs queries.
RunLines == {DirectiveA, DirectiveB, BodyX, BodyY}

\* parse_named_queries(QUERIES_FILE) starts on whatever the file holds.
RunQueriesBegin ==
    /\ pc = "rq_begin"
    /\ file' \in FilesOver(RunLines, MaxFileLines)
    /\ pos' = 1 /\ queries' = <<>> /\ current_name' = None /\ buffer' = <<>>
    /\ h_dir' = 0 /\ h_buf' = <<>> /\ h_stored' = <<>>
    /\ pc' = "parse"
    /\ UNCHANGED <<argVars, exc, message, conns, out, it, etlVars, runs, h_opened>>

\* `if selected and selected not in queries: raise SystemExit(...)`
RunQueriesCheck ==
    /\ pc = "parsed"
    /\ IF Truthy(selected) /\ ~DictHas(queries, selected[1])
       THEN /\ exc' = "SystemExit"
            /\ message' = Sorted(queries)
            /\ pc' = "done"
       ELSE /\ pc' = "rq_open"
            /\ UNCHANGED <<exc, message>>
    /\ UNCHANGED <<argVars, parseVars, conns, out, it, etlVars, runs, h_opened>>

\* A faulty variant: the loop visits the names in sorted order.
ItemsSorted(d) ==
    [i \in 1..Len(d) |-> [key |-> Sorted(d)[i], value |-> DictGet(d, Sorted(d)[i])]]

\* queries.items(): the items in insertion order.
Items(d) == d

\* `if selected and name != selected: continue`
LoopSkip ==
    /\ pc = "rq_loop"
    /\ it <= Len(queries)
    /\ Truthy(selected) /\ Items(queries)[it].key # selected[1]
    /\ it' = it + 1
    /\ UNCHANGED <<pc, argVars, exc, message, parseVars, conns, out, etlVars, runs, h_opened>>

\* print(heading)
LoopHeader ==
    /\ pc = "rq_loop"
    /\ it <= Len(queries)
    /\ ~(Truthy(selected) /\ Items(queries)[it].key # selected[1])
    /\ out' = Append(out, [kind |-> "header", name |-> Items(queries)[it].key])
    /\ pc' = "rq_execute"
    /\ UNCHANGED <<argVars, exc, message, parseVars, conns, it, etlVars, runs, h_opened>>

\* conn.execute(plan_prefix + sql), and the rows (or the plan) printed.
Execute ==
    /\ pc = "rq_execute"
    /\ out' = Append(out, [kind |-> "execute", name |-> Items(queries)[it].key,
                           plan |-> explain, sql |-> Items(queries)[it].value])
    /\ it' = it + 1
    /\ pc' = "rq_loop"
    /\ UNCHANGED <<argVars, exc, message, parseVars, conns, etlVars, runs, h_opened>>

\* The loop is over: the end of run_queries' `with` block.
LoopExit ==
    /\ pc = "rq_loop"
    /\ it > Len(queries)
    /\ conns' = ExitWith(conns)
    /\ pc' = "done"
    /\ UNCHANGED <<argVars, exc, message, parseVars, out, it, etlVars, runs, h_opened>>

\* --------------------------------------------------------------------- main

Commands == {"etl", "queries", "full"}

\* main's dispatch on args.command.
Main ==
    /\ pc = "main"
    /\ pc' = IF command = "queries" THEN "rq_begin" ELSE "etl_open"
    /\ UNCHANGED <<argVars, exc, message, parseVars, conns, out, it, etlVars, runs, h_opened>>

\* The command is run once more, on the warehouse the last run left.
Invoke ==
    /\ pc = "done"
    /\ runs < MaxRuns
    /\ runs' = runs + 1
    /\ pc' = "main"
    /\ exc' = "none" /\ message' = <<>> /\ out' = <<>> /\ it' = 1
    /\ h_opened' = 0
    /\ UNCHANGED <<argVars, parseVars, conns, etlVars>>

ProcessStart ==
    /\ pc = "main"
    /\ exc = "none" /\ message = <<>>
    /\ file = <<>> /\ ParserStart
    /\ conns = <<>> /\ out = <<>> /\ it = 1
    /\ wh = EmptyWarehouse /\ runs = 1
    /\ h_opened = 0 /\ h_fresh = None

\* parse_named_queries on any file of at most MaxLines lines.
InitParse ==
    /\ pc = "parse"
    /\ file \in FilesOver(ParseLines, MaxLines)
    /\ ParserStart
    /\ command = "queries" /\ selected = None /\ explain = FALSE
    /\ exc = "none" /\ message = <<>>
    /\ conns = <<>> /\ out = <<>> /\ it = 1
    /\ csv = <<>> /\ wh = EmptyWarehouse /\ runs = 1
    /\ h_opened = 0 /\ h_fresh = None

NextParse == ReadDirective \/ ReadLine \/ EndOfInput

SpecParse == InitParse /\ [][NextParse]_vars

\* The names --name is drawn from: none, the empty string, and three names.
SelectedNames == {None, Some(<<>>), Some(<<"a">>), Some(<<"b">>), Some(<<"c">>)}

CsvFixture ==
    << Order(1, 1, 1, 1, 9, Some("completed"), 2, 5),
       Order(2, 2, 1, 1, 17, Some("Cancelled"), 1, 5),
       Order(3, 2, 2, 2, 9, Some("shipped"), 1, 10) >>

\* One command, on an empty warehouse.
InitRun ==
    /\ ProcessStart
    /\ command \in Commands
    /\ selected \in IF command = "queries" THEN SelectedNames ELSE {None}
    /\ explain \in IF command = "etl" THEN {FALSE} ELSE BOOLEAN
    /\ csv = CsvFixture

Build ==
    \/ CreateStagingSchema \/ IngestCustomers \/ IngestProducts \/ IngestOrders
    \/ CreateMartSchema \/ BuildDimCustomers \/ BuildDimProducts
    \/ BuildFactOrders \/ BuildMetricsDaily \/ BuildCustomerRollups
    \/ Analyze \/ EtlExit

NextRun ==
    \/ Main \/ Connect \/ ConnectFails \/ StatementFails
    \/ Build
    \/ RunQueriesBegin \/ ReadDirective \/ ReadLine \/ EndOfInput
    \/ RunQueriesCheck \/ LoopSkip \/ LoopHeader \/ Execute \/ LoopExit

SpecRun == InitRun /\ [][NextRun]_vars

\* The etl command, run up to MaxRuns times over one orders.csv.
InitEtl ==
    /\ ProcessStart
    /\ command = "etl" /\ selected = None /\ explain = FALSE
    /\ csv \in OrderFiles

NextEtl ==
    \/ Main \/ Connect \/ ConnectFails \/ StatementFails
    \/ Build
    \/ Invoke

SpecEtl == InitEtl /\ [][NextEtl]_vars

\* ---------------------------------------------------- the parser's contract

\* What the file says, read without the parser's state: the directives, and
\* the lines between a directive and the next one.
DirectiveIdx(f) == {i \in 1..Len(f) : IsDirective(f[i])}

NextDirective(f, d) ==
    IF \E e \in DirectiveIdx(f) : e > d
    THEN CHOOSE e \in DirectiveIdx(f) :
             e > d /\ \A e2 \in DirectiveIdx(f) : e2 > d => e <= e2
    ELSE Len(f) + 1

OwnLines(f, d) == SubSeq(f, d + 1, NextDirective(f, d) - 1)

OwnBody(f, d) == Strip(Join(OwnLines(f, d)))

DirectivesNamed(f, n) == {d \in DirectiveIdx(f) : NameOf(f[d]) = n}

NamesIn(f) == {NameOf(f[d]) : d \in DirectiveIdx(f)}

FirstDirective(f) == NextDirective(f, 0)

WellFormed(f) ==
    /\ f # <<>>
    /\ IsDirective(f[1])
    /\ \A d \in DirectiveIdx(f) :
           /\ NameOf(f[d]) # <<>>
           /\ OwnLines(f, d) # <<>>
           /\ \A e \in DirectiveIdx(f) : e # d => NameOf(f[e]) # NameOf(f[d])

AsMapping(d) == {<<d[i].key, d[i].value>> : i \in 1..Len(d)}

KeySet(d) == {d[i].key : i \in 1..Len(d)}

\* The text of the lines at the given positions of the file, trimmed.
BodyOfLines(f, at) == Strip(Join([i \in 1..Len(at) |-> f[at[i]]]))

StoresOf(n) == {i \in 1..Len(h_stored) : h_stored[i].name = n}

LastStoreOf(n) == h_stored[CHOOSE i \in StoresOf(n) : \A j \in StoresOf(n) : j <= i]

\* C1: on a well-formed file (the first line is a directive, the names are
\* non-empty and pairwise distinct, every directive is followed by a line
\* that is no directive) the mapping returned has one key per directive, and
\* each body is the trimmed text of the lines between its directive and the
\* next one; no directive line is in a body.
C1_WellFormedFile ==
    (pc = "parsed" /\ WellFormed(file)) =>
        /\ Len(queries) = Cardinality(DirectiveIdx(file))
        /\ AsMapping(queries) =
               {<<NameOf(file[d]), OwnBody(file, d)>> : d \in DirectiveIdx(file)}

\* The q1/q2 file of the specification, parsed.
C1_Witness ==
    /\ pc = "parsed"
    /\ file = <<DirectiveA, BodyX, DirectiveB, BodyY>>
    /\ WellFormed(file)
    /\ queries = << [key |-> <<"a">>, value |-> <<"x">>],
                    [key |-> <<"b">>, value |-> <<"y">>] >>

\* The positions among `at` that come after the first directive of the file.
AfterPreamble(f, at) == SelectSeq(at, LAMBDA i : i > FirstDirective(f))

\* C2: the lines before the first directive are discarded: every body of the
\* mapping returned is the text of lines that come after the first directive,
\* and of no line before it.
C2_PreambleDiscarded ==
    pc = "parsed" =>
        \A n \in KeySet(queries) :
            StoresOf(n) # {} =>
                DictGet(queries, n) =
                    BodyOfLines(file, AfterPreamble(file, LastStoreOf(n).lines))

\* C3: a name all of whose directives are followed at once by a directive or
\* by the end of input is no key; the keys are the names of the directives
\* that have lines of their own; and a body holds only lines that follow a
\* directive of its name.
C3_EmptyDirectivesAbsent ==
    pc = "parsed" =>
        /\ \A n \in NamesIn(file) :
               (\A d \in DirectivesNamed(file, n) : OwnLines(file, d) = <<>>)
                   => ~DictHas(queries, n)
        /\ KeySet(queries) =
               {n \in NamesIn(file) \ {<<>>} :
                    \E d \in DirectivesNamed(file, n) : OwnLines(file, d) # <<>>}
        /\ \A n \in KeySet(queries) :
               \E d \in DirectivesNamed(file, n) :
                   DictGet(queries, n) = OwnBody(file, d)

LastDirectiveNamed(f, n) ==
    CHOOSE d \in DirectivesNamed(f, n) : \A e \in DirectivesNamed(f, n) : e <= d

\* C4, as claimed: a name declared by more than one directive (one of them, at
\* least, with lines of its own) has exactly one entry, whose body is the
\* trimmed content that follows the last directive of that name.
C4_LastDirectiveWins ==
    pc = "parsed" =>
        \A n \in NamesIn(file) \ {<<>>} :
            (/\ Cardinality(DirectivesNamed(file, n)) > 1
             /\ \E d \in DirectivesNamed(file, n) : OwnLines(file, d) # <<>>) =>
                /\ Cardinality({i \in 1..Len(queries) : queries[i].key = n}) = 1
                /\ DictGet(queries, n) = OwnBody(file, LastDirectiveNamed(file, n))

\* C4, amended: a name has at most one entry; it has one exactly when some
\* flush for that name found the buffer non-empty, and the body is the
\* trimmed buffer of the last such flush, which belongs to a directive of
\* that name.  A later directive of the name whose buffer is empty at its
\* flush leaves the body in place.
C4_LastStoreWins ==
    \A n \in NamesIn(file) \cup KeySet(queries) :
        /\ Cardinality({i \in 1..Len(queries) : queries[i].key = n}) <= 1
        /\ DictHas(queries, n) <=> StoresOf(n) # {}
        /\ DictHas(queries, n) =>
               /\ DictGet(queries, n) = BodyOfLines(file, LastStoreOf(n).lines)
               /\ LastStoreOf(n).lines # <<>>
               /\ LastStoreOf(n).dir \in DirectivesNamed(file, n)

\* A name declared twice and stored twice, with different bodies.
C4_Witness ==
    /\ pc = "parsed"
    /\ \E n \in KeySet(queries) :
           /\ Cardinality(DirectivesNamed(file, n)) > 1
           /\ \E i, j \in StoresOf(n) :
                  /\ i < j
                  /\ BodyOfLines(file, h_stored[i].lines)
                         # BodyOfLines(file, h_stored[j].lines)

\* ---------------------------------------------------- the runner's contract

IsPrefix(s, t) == Len(s) <= Len(t) /\ s = SubSeq(t, 1, Len(s))

Executed == SelectSeq(out, LAMBDA e : e.kind = "execute")

ExecutedNames == [i \in 1..Len(Executed) |-> Executed[i].name]

\* Every execution comes right after the header of its query, and runs the
\* body the mapping holds for that name.
HeaderThenExecute ==
    \A i \in 1..Len(out) :
        out[i].kind = "execute" =>
            /\ i > 1
            /\ out[i - 1] = [kind |-> "header", name |-> out[i].name]
            /\ DictHas(queries, out[i].name)
            /\ out[i].sql = DictGet(queries, out[i].name)
            /\ out[i].plan = explain

FirstDirectiveNamed(f, n) ==
    CHOOSE d \in DirectivesNamed(f, n) : \A e \in DirectivesNamed(f, n) : d <= e

\* s lists the names of `names` once each, by the place of their first directive.
InDeclarationOrder(s, f, names) ==
    /\ Len(s) = Cardinality(names)
    /\ {s[i] : i \in 1..Len(s)} = names
    /\ \A i, j \in 1..Len(s) :
           i < j => FirstDirectiveNamed(f, s[i]) < FirstDirectiveNamed(f, s[j])

FirstStoreOf(n) == CHOOSE i \in StoresOf(n) : \A j \in StoresOf(n) : i <= j

\* s lists the names of `names` once each, by the place of the first
\* directive of the name that was stored.
InFirstStoreOrder(s, names) ==
    /\ Len(s) = Cardinality(names)
    /\ {s[i] : i \in 1..Len(s)} = names
    /\ \A i, j \in 1..Len(s) :
           i < j => h_stored[FirstStoreOf(s[i])].dir < h_stored[FirstStoreOf(s[j])].dir

RunAllEnded ==
    /\ pc = "done" /\ exc = "none"
    /\ command \in {"queries", "full"} /\ selected = None

\* C5, as claimed: run with no name, run_queries executes every entry once,
\* in the order of the names' first directives in the file, each after its
\* header.
C5_DeclarationOrder ==
    RunAllEnded =>
        /\ InDeclarationOrder(ExecutedNames, file, KeySet(queries))
        /\ HeaderThenExecute

\* C5, amended: run with no name, run_queries executes the entries in the
\* order in which their names were first stored, which is the order in the
\* file of each name's first directive whose buffer was non-empty at its
\* flush; each execution follows its header; when no query raises, every
\* entry is executed once, and when one raises, the entries before it were.
C5_FirstStoreOrder ==
    (command \in {"queries", "full"} /\ selected = None) =>
        /\ HeaderThenExecute
        /\ \E s \in [1..Len(queries) -> KeySet(queries)] :
               /\ InFirstStoreOrder(s, KeySet(queries))
               /\ IsPrefix(ExecutedNames, s)
               /\ (pc = "done" /\ exc = "none") => ExecutedNames = s

\* A name whose first directive has no lines is executed after a name
\* declared later.
C5_Witness ==
    /\ RunAllEnded
    /\ Len(ExecutedNames) = 2
    /\ ~InDeclarationOrder(ExecutedNames, file, KeySet(queries))

IsSortedListOf(s, names) ==
    /\ Len(s) = Cardinality(names)
    /\ {s[i] : i \in 1..Len(s)} = names
    /\ \A i, j \in 1..Len(s) : i < j => StrLess(s[i], s[j])

\* C6: a name given to run_queries that is no key of the mapping makes it
\* fail with the not-found error, which lists the keys in sorted order,
\* before any connection is opened or any query executed.
C6_UnknownNameRejected ==
    (/\ command = "queries" /\ selected # None
     /\ pc \in {"rq_open", "rq_loop", "rq_execute", "done"}
     /\ ~DictHas(queries, selected[1])) =>
        /\ pc = "done"
        /\ exc = "SystemExit"
        /\ IsSortedListOf(message, KeySet(queries))
        /\ h_opened = 0
        /\ out = <<>>

InsideWith ==
    StatementPcs \cup {"etl_exit", "rq_loop"}

\* C7: a connection is open only inside the `with` block of run_etl (read-
\* write) or of run_queries (read-only): at most one at a time, none between
\* the two operations of `full`, none when the command has ended, however
\* it ended.
C7_ConnectionScoped ==
    /\ Len(conns) <= 1
    /\ pc \notin InsideWith => conns = <<>>
    /\ pc \in InsideWith =>
           conns = << IF pc \in {"rq_loop", "rq_execute"} THEN "ro" ELSE "rw" >>

\* `full` ended by a query that raised, after both connections were opened.
C7_Witness ==
    /\ pc = "done" /\ exc = "Error" /\ command = "full"
    /\ h_opened = 2
    /\ Len(out) > 0
    /\ conns = <<>>

\* -------------------------------------------------- the warehouse's contract

BuildCompleted == pc = "done" /\ exc = "none" /\ command = "etl"

\* The status, compared without regard to case, is neither 'cancelled' nor
\* 'refunded'.
NeitherCancelledNorRefunded(o) ==
    Lower(o.status) \notin {Some("cancelled"), Some("refunded")}

OrderKey(r) == <<r.order_id, r.customer_id, r.product_id, r.quantity, r.unit_price>>

\* C8: after a completed build, mart.fact_orders holds exactly the staging
\* orders that are neither cancelled nor refunded, and mart.metrics_daily
\* holds one row per order date of fact_orders, its revenue the sum of
\* quantity * unit_price over the rows of that date.
C8_FactOrdersAndMetrics ==
    BuildCompleted =>
        LET staged == SelectSeq(wh.orders[1], NeitherCancelledNorRefunded)
            fact == wh.fact_orders[1]
            metrics == wh.metrics_daily[1]
            dates == {DateOf(fact[i].order_ts) : i \in 1..Len(fact)}
        IN  /\ [i \in 1..Len(fact) |-> OrderKey(fact[i])]
                   = [i \in 1..Len(staged) |-> OrderKey(staged[i])]
            /\ {m.order_date : m \in metrics} = dates
            /\ \A d \in dates :
                   /\ Cardinality({m \in metrics : m.order_date = d}) = 1
                   /\ \A m \in metrics :
                          m.order_date = d =>
                              m.revenue = SumRevenue(SelectSeq(fact,
                                  LAMBDA r : DateOf(r.order_ts) = d))
                   /\ \A i \in 1..Len(fact) :
                          fact[i].gross_revenue = fact[i].quantity * fact[i].unit_price

\* C9: after a completed build, revenue_rank is a dense rank by total revenue
\* descending: the highest revenue has rank 1, two customers share a rank
\* exactly when their revenues are equal, and the ranks are 1..k without gaps.
C9_DenseRank ==
    BuildCompleted =>
        LET rollups == wh.customer_rollups[1]
        IN  /\ \A r1, r2 \in rollups :
                   /\ (r1.revenue_rank = r2.revenue_rank)
                          <=> (r1.total_revenue = r2.total_revenue)
                   /\ r1.total_revenue > r2.total_revenue
                          => r1.revenue_rank < r2.revenue_rank
            /\ {r.revenue_rank : r \in rollups}
                   = 1..Cardinality({r.total_revenue : r \in rollups})

\* C10: whatever runs came before, aborted or not, a run_etl that completes
\* leaves the tables a single run on the empty warehouse left from the same
\* CSV files.
C10_RebuildIsIdempotent ==
    (BuildCompleted /\ h_fresh # None) => wh = h_fresh[1]

====
